---- MODULE Spec2Model ----
(***************************************************************************)
(* shadow-ai-hunter: the log parsers (Squid, DNS, CSV), the service        *)
(* catalog (New, LoadCustomDomains), the domain matcher (matchDomain) and  *)
(* the aggregator (Analyze).                                               *)
(*                                                                         *)
(* A Go string that the code takes apart (a domain, a URL, a log line, a   *)
(* CSV cell) is a sequence of symbols.  A symbol is one character ("a",    *)
(* "A", ".", ":", "/", " ", ...) or an opaque run of characters that holds *)
(* none of the separators the code looks for (a timestamp, a number).      *)
(* A Go string the code only copies and compares (a service name, a client *)
(* address) is a TLA+ string.                                              *)
(***************************************************************************)
EXTENDS Integers, Sequences, FiniteSets, TLC

VARIABLES
    pc,         \* where the run is
    baseFile,   \* the services list decoded from the base catalog file
    customFile, \* the services list decoded from the custom catalog file
    domainMap,  \* Analyzer.domainMap: lower-cased domain -> AIService
    query,      \* the argument of the last matchDomain call
    result,     \* what that call returned: [found, svc]
    entries,    \* Analyze: its argument
    idx,        \* Analyze: the position of the loop in entries, from 1
    summary,    \* Analyze: its Summary
    logFile,    \* Parse: the file, [format, lines]
    scanPos,    \* Parse: the line or row the loop is at, from 1
    parsed,     \* Parse: the entries collected, then returned
    parseErr,   \* Parse: the error returned, "none" when nil
    files,      \* main: the log files to scan, in order
    fileIdx,    \* main: the position of the file loop in files, from 1
    allEntries, \* main: the entries of the files parsed so far
    exitCode,   \* main: the exit status, -1 while the run goes on
    calls,      \* the calls main has made, in order, each with its outcome
    previous    \* the Summary an earlier Analyze call returned, if any

catalogVars == <<baseFile, customFile, domainMap>>
matchVars == <<query, result>>
analyzeVars == <<entries, idx, summary>>
parseVars == <<logFile, scanPos, parsed, parseErr>>
runVars == <<files, fileIdx, allEntries, exitCode, calls, previous>>

vars == <<pc, catalogVars, matchVars, analyzeVars, parseVars, runVars>>

----------------------------------------------------------------------------
(* strings *)

Dot == <<".">>

\* unicode.ToLower on the characters of the model's alphabet
ToLowerChar(c) ==
    CASE c = "A" -> "a"
      [] c = "B" -> "b"
      [] c = "H" -> "h"
      [] c = "Domain" -> "domain"
      [] c = "SRC_IP" -> "src_ip"
      [] OTHER -> c

\* strings.ToLower
ToLower(s) == [i \in 1..Len(s) |-> ToLowerChar(s[i])]

\* strings.IndexByte, 1-based; 0 when c does not occur in s
IndexOf(s, c) ==
    IF \E i \in 1..Len(s) : s[i] = c
    THEN CHOOSE i \in 1..Len(s) : s[i] = c /\ \A j \in 1..(i-1) : s[j] # c
    ELSE 0

\* strings.Split(s, c) for a one-character separator: never empty
RECURSIVE Split(_, _)
Split(s, c) ==
    LET i == IndexOf(s, c)
    IN  IF i = 0 THEN <<s>>
        ELSE <<SubSeq(s, 1, i-1)>> \o Split(SubSeq(s, i+1, Len(s)), c)

\* strings.Join(parts, sep)
RECURSIVE Join(_, _)
Join(parts, sep) ==
    IF Len(parts) = 0 THEN <<>>
    ELSE IF Len(parts) = 1 THEN parts[1]
    ELSE parts[1] \o sep \o Join(Tail(parts), sep)

\* unicode.IsSpace on the alphabet
IsSpace(c) == c \in {" ", "\t"}

\* s[lo:hi] of Go, indices from 0
GoSlice(s, lo, hi) == SubSeq(s, lo + 1, hi)

\* s[lo:]
GoFrom(s, lo) == SubSeq(s, lo + 1, Len(s))

\* strings.HasPrefix, strings.HasSuffix
HasPrefix(s, p) == Len(s) >= Len(p) /\ SubSeq(s, 1, Len(p)) = p
HasSuffix(s, p) == Len(s) >= Len(p) /\ SubSeq(s, Len(s) - Len(p) + 1, Len(s)) = p

\* the Go indices at which sub occurs in s
Occurrences(s, sub) == {i \in 0..(Len(s) - Len(sub)) : GoSlice(s, i, i + Len(sub)) = sub}

\* strings.Index and strings.LastIndex: a Go index, -1 when sub does not occur
Index(s, sub) ==
    IF Occurrences(s, sub) = {} THEN -1
    ELSE CHOOSE i \in Occurrences(s, sub) : \A j \in Occurrences(s, sub) : i <= j

LastIndex(s, sub) ==
    IF Occurrences(s, sub) = {} THEN -1
    ELSE CHOOSE i \in Occurrences(s, sub) : \A j \in Occurrences(s, sub) : j <= i

\* strings.Contains
Contains(s, sub) == Index(s, sub) >= 0

\* strings.TrimSuffix
TrimSuffix(s, p) == IF HasSuffix(s, p) THEN SubSeq(s, 1, Len(s) - Len(p)) ELSE s

\* strings.TrimLeft(s, white space)
RECURSIVE TrimLeftSpace(_)
TrimLeftSpace(s) ==
    IF s # <<>> /\ IsSpace(s[1]) THEN TrimLeftSpace(Tail(s)) ELSE s

RECURSIVE TrimRightSpace(_)
TrimRightSpace(s) ==
    IF s # <<>> /\ IsSpace(s[Len(s)]) THEN TrimRightSpace(SubSeq(s, 1, Len(s) - 1)) ELSE s

\* strings.TrimSpace
TrimSpace(s) == TrimRightSpace(TrimLeftSpace(s))

\* the length of the run of non-space symbols s starts with
RECURSIVE WordLen(_)
WordLen(s) == IF s = <<>> \/ IsSpace(s[1]) THEN 0 ELSE 1 + WordLen(Tail(s))

\* strings.Fields
RECURSIVE Fields(_)
Fields(s) ==
    IF s = <<>> THEN <<>>
    ELSE IF IsSpace(s[1]) THEN Fields(Tail(s))
    ELSE <<SubSeq(s, 1, WordLen(s))>> \o Fields(GoFrom(s, WordLen(s)))

\* strings.SplitN(s, sep, 2)
SplitN2(s, sep) ==
    IF Index(s, sep) < 0 THEN <<s>>
    ELSE <<GoSlice(s, 0, Index(s, sep)), GoFrom(s, Index(s, sep) + Len(sep))>>

----------------------------------------------------------------------------
(* the catalog: analyzer.go *)

\* AIService{}
EmptyService == [Name |-> "", Category |-> "", Domains |-> <<>>]

\* a.domainMap[key] = svc
MapPut(dm, key, svc) ==
    [k \in (DOMAIN dm) \cup {key} |-> IF k = key THEN svc ELSE dm[k]]

\* InsertDomainsFrom with the key stored as the file spells it
RECURSIVE InsertDomainsFrom_KeyAsListed(_, _, _)
InsertDomainsFrom_KeyAsListed(dm, svc, j) ==
    IF j > Len(svc.Domains) THEN dm
    ELSE InsertDomainsFrom_KeyAsListed(MapPut(dm, svc.Domains[j], svc), svc, j + 1)

\* for _, domain := range svc.Domains { a.domainMap[strings.ToLower(domain)] = svc }
RECURSIVE InsertDomainsFrom(_, _, _)
InsertDomainsFrom(dm, svc, j) ==
    IF j > Len(svc.Domains) THEN dm
    ELSE InsertDomainsFrom(MapPut(dm, ToLower(svc.Domains[j]), svc), svc, j + 1)

InsertDomains(dm, svc) == InsertDomainsFrom(dm, svc, 1)

\* for _, svc := range sf.Services { ... }
RECURSIVE InsertServices(_, _)
InsertServices(dm, services) ==
    IF services = <<>> THEN dm
    ELSE InsertServices(InsertDomains(dm, Head(services)), Tail(services))

\* make(map[string]AIService)
EmptyMap == [k \in {} |-> EmptyService]

\* a merge that keeps the owner a key already has
RECURSIVE MergeServices_KeepsOwner(_, _)
MergeServices_KeepsOwner(dm, services) ==
    IF services = <<>> THEN dm
    ELSE LET svc == Head(services)
             fresh == {j \in 1..Len(svc.Domains) : ToLower(svc.Domains[j]) \notin DOMAIN dm}
             added == [k \in (DOMAIN dm) \cup {ToLower(svc.Domains[j]) : j \in fresh} |->
                          IF k \in DOMAIN dm THEN dm[k] ELSE svc]
         IN  MergeServices_KeepsOwner(added, Tail(services))

\* the loop of LoadCustomDomains, over the map New built
MergeServices(dm, services) == InsertServices(dm, services)

----------------------------------------------------------------------------
(* the matcher: analyzer.go *)

Found(svc) == [found |-> TRUE, svc |-> svc]
NotFound == [found |-> FALSE, svc |-> EmptyService]

\* the loop run up to the last label: i < len(parts)
RECURSIVE SuffixLoop_ToLastLabel(_, _, _)
SuffixLoop_ToLastLabel(dm, parts, i) ==
    IF ~(i < Len(parts)) THEN NotFound
    ELSE LET parent == Join(SubSeq(parts, i + 1, Len(parts)), Dot)
         IN  IF parent \in DOMAIN dm THEN Found(dm[parent])
             ELSE SuffixLoop_ToLastLabel(dm, parts, i + 1)

\* the loop run from the shortest candidate to the longest: i counts down
RECURSIVE SuffixLoop_ShortestFirst(_, _, _)
SuffixLoop_ShortestFirst(dm, parts, i) ==
    LET j == Len(parts) - 1 - i
    IN  IF ~(j >= 1) THEN NotFound
        ELSE LET parent == Join(SubSeq(parts, j + 1, Len(parts)), Dot)
             IN  IF parent \in DOMAIN dm THEN Found(dm[parent])
                 ELSE SuffixLoop_ShortestFirst(dm, parts, i + 1)

\* the loop of matchDomain: i is the Go index, parts[i:] is the candidate
RECURSIVE SuffixLoop(_, _, _)
SuffixLoop(dm, parts, i) ==
    IF ~(i < Len(parts) - 1) THEN NotFound
    ELSE LET parent == Join(SubSeq(parts, i + 1, Len(parts)), Dot)
         IN  IF parent \in DOMAIN dm THEN Found(dm[parent])
             ELSE SuffixLoop(dm, parts, i + 1)

\* a matcher whose loop starts one label late: i := 2
matchDomain_SkipsParent(dm, dom) ==
    LET domain == ToLower(dom)
    IN  IF domain \in DOMAIN dm THEN Found(dm[domain])
        ELSE SuffixLoop(dm, Split(domain, "."), 2)

\* func (a *Analyzer) matchDomain(domain string) (AIService, bool)
matchDomain(dm, dom) ==
    LET domain == ToLower(dom)
    IN  IF domain \in DOMAIN dm THEN Found(dm[domain])
        ELSE SuffixLoop(dm, Split(domain, "."), 1)

----------------------------------------------------------------------------
(* the aggregator: analyzer.go *)

\* Summary{}; a nil slice is the empty sequence, a map is a function on its keys
ZeroSummary ==
    [ TotalLogsScanned |-> 0, TotalFindings |-> 0, UniqueUsers |-> 0,
      UniqueServices |-> 0, Findings |-> <<>>,
      ByUser |-> [k \in {} |-> 0], ByService |-> [k \in {} |-> 0] ]

\* summary := Summary{TotalLogsScanned: len(entries), ByUser: make(...), ByService: make(...)}
NewSummary(es) == [ZeroSummary EXCEPT !.TotalLogsScanned = Len(es)]

\* a map write that stores 1 instead of adding 1
Increment_StoresOne(m, key) ==
    [k \in (DOMAIN m) \cup {key} |-> IF k = key THEN 1 ELSE m[k]]

\* m[key]++ on a map[string]int: a missing key reads as 0
Increment(m, key) ==
    [k \in (DOMAIN m) \cup {key} |->
        IF k = key THEN (IF key \in DOMAIN m THEN m[key] ELSE 0) + 1 ELSE m[k]]

\* a finding that carries the domain the catalog lists, not the one logged
MakeFinding_ListedDomain(entry, svc) ==
    [ Timestamp |-> entry.Timestamp, SourceIP |-> entry.SourceIP,
      ServiceName |-> svc.Name, Category |-> svc.Category,
      Domain |-> svc.Domains[1], URL |-> entry.URL, Method |-> entry.Method,
      StatusCode |-> entry.StatusCode, BytesSent |-> entry.BytesSent ]

\* finding := Finding{...}
MakeFinding(entry, svc) ==
    [ Timestamp |-> entry.Timestamp, SourceIP |-> entry.SourceIP,
      ServiceName |-> svc.Name, Category |-> svc.Category,
      Domain |-> entry.Domain, URL |-> entry.URL, Method |-> entry.Method,
      StatusCode |-> entry.StatusCode, BytesSent |-> entry.BytesSent ]

\* the body of the loop of Analyze for one entry
AnalyzeEntry(dm, sm, entry) ==
    LET m == matchDomain(dm, entry.Domain)
    IN  IF ~m.found THEN sm
        ELSE [sm EXCEPT !.Findings = Append(@, MakeFinding(entry, m.svc)),
                        !.ByUser = Increment(@, entry.SourceIP),
                        !.ByService = Increment(@, m.svc.Name)]

\* totals that count findings where users are meant
Totals_UsersAreFindings(sm) ==
    [sm EXCEPT !.TotalFindings = Len(sm.Findings),
               !.UniqueUsers = Len(sm.Findings),
               !.UniqueServices = Cardinality(DOMAIN sm.ByService)]

\* summary.TotalFindings = len(summary.Findings) and the two lines after it
Totals(sm) ==
    [sm EXCEPT !.TotalFindings = Len(sm.Findings),
               !.UniqueUsers = Cardinality(DOMAIN sm.ByUser),
               !.UniqueServices = Cardinality(DOMAIN sm.ByService)]

----------------------------------------------------------------------------
(* numbers and URLs, as the parsers read them *)

\* an opaque run of decimal digits
IsDigits(c) == c \in {"1500", "200", "443", "1234", "10"}

IsLetter(c) == c \in {"a", "A", "b", "B", "h", "H"}

DigitsValue(c) ==
    CASE c = "1500" -> 1500 [] c = "200" -> 200 [] c = "443" -> 443
      [] c = "1234" -> 1234 [] c = "10" -> 10 [] OTHER -> 0

\* strconv.ParseInt(s, 10, 64); v is 0 on error
ParseInt(f) ==
    IF Len(f) = 1 /\ IsDigits(f[1]) THEN [ok |-> TRUE, v |-> DigitsValue(f[1])]
    ELSE [ok |-> FALSE, v |-> 0]

\* strconv.ParseFloat(s, 64) followed by int64(): an integer, or a decimal fraction
ParseFloat(f) ==
    IF ParseInt(f).ok THEN ParseInt(f)
    ELSE IF f = <<"1718000000.000">> THEN [ok |-> TRUE, v |-> 1718000000]
    ELSE [ok |-> FALSE, v |-> 0]

\* net/url getScheme, from Go index i
RECURSIVE GetSchemeFrom(_, _)
GetSchemeFrom(raw, i) ==
    IF i >= Len(raw) THEN [err |-> FALSE, scheme |-> <<>>, rest |-> raw]
    ELSE LET c == raw[i + 1]
         IN  IF IsLetter(c) THEN GetSchemeFrom(raw, i + 1)
             ELSE IF IsDigits(c) \/ c \in {"+", "-", "."}
                  THEN IF i = 0 THEN [err |-> FALSE, scheme |-> <<>>, rest |-> raw]
                       ELSE GetSchemeFrom(raw, i + 1)
             ELSE IF c = ":"
                  THEN IF i = 0 THEN [err |-> TRUE, scheme |-> <<>>, rest |-> <<>>]
                       ELSE [err |-> FALSE, scheme |-> GoSlice(raw, 0, i), rest |-> GoFrom(raw, i + 1)]
             ELSE [err |-> FALSE, scheme |-> <<>>, rest |-> raw]

\* net/url validOptionalPort
ValidOptionalPort(port) ==
    \/ port = <<>>
    \/ /\ port[1] = ":"
       /\ \A i \in 2..Len(port) : IsDigits(port[i])

\* net/url parseHost, for a host that is no bracketed IP literal
ParseHost(host) ==
    LET i == LastIndex(host, <<":">>)
    IN  IF i # -1 /\ ~ValidOptionalPort(GoFrom(host, i))
        THEN [err |-> TRUE, Host |-> <<>>]
        ELSE [err |-> FALSE, Host |-> host]

\* net/url Parse, for a URL with no "#", "?", "@", "%" and no control character
UrlParse(raw) ==
    LET g == GetSchemeFrom(raw, 0)
        scheme == ToLower(g.scheme)
        rest == g.rest
        slash == Index(rest, <<"/">>)
        segment == IF slash < 0 THEN rest ELSE GoSlice(rest, 0, slash)
        after == GoFrom(rest, 2)
        cut == Index(after, <<"/">>)
        authority == IF cut >= 0 THEN GoSlice(after, 0, cut) ELSE after
    IN  IF g.err THEN [err |-> TRUE, Host |-> <<>>]
        ELSE IF ~HasPrefix(rest, <<"/">>)
             THEN IF scheme # <<>> THEN [err |-> FALSE, Host |-> <<>>]
                  ELSE IF Contains(segment, <<":">>) THEN [err |-> TRUE, Host |-> <<>>]
                  ELSE [err |-> FALSE, Host |-> <<>>]
        ELSE IF (scheme # <<>> \/ ~HasPrefix(rest, <<"/", "/", "/">>)) /\ HasPrefix(rest, <<"/", "/">>)
             THEN ParseHost(authority)
        ELSE [err |-> FALSE, Host |-> <<>>]

\* (*URL).Hostname
Hostname(host) ==
    LET colon == LastIndex(host, <<":">>)
    IN  IF colon # -1 /\ ValidOptionalPort(GoFrom(host, colon))
        THEN GoSlice(host, 0, colon)
        ELSE host

----------------------------------------------------------------------------
(* the Squid parser: squid.go *)

\* LogEntry{}
ZeroEntry ==
    [ Timestamp |-> "zero", SourceIP |-> <<>>, Domain |-> <<>>, URL |-> <<>>,
      Method |-> <<>>, StatusCode |-> <<>>, BytesSent |-> 0, RawLine |-> <<>> ]

\* func extractDomain(rawURL string) string
extractDomain(rawURL) ==
    IF ~Contains(rawURL, <<":", "/", "/">>)
    THEN ToLower(SplitN2(rawURL, <<":">>)[1])
    ELSE LET u == UrlParse(rawURL)
         IN  IF u.err THEN <<>>
             ELSE ToLower(Hostname(u.Host))

\* func parseSquidLine(line string) (LogEntry, error)
parseSquidLine(line) ==
    LET fields == Fields(line)
        parts == SplitN2(fields[4], <<"/">>)
    IN  IF Len(fields) < 8 THEN [err |-> TRUE, entry |-> ZeroEntry]
        ELSE IF ~ParseFloat(fields[1]).ok THEN [err |-> TRUE, entry |-> ZeroEntry]
        ELSE [ err |-> FALSE,
               entry |->
                 [ Timestamp |-> ParseFloat(fields[1]).v,
                   SourceIP |-> fields[3],
                   Domain |-> extractDomain(fields[7]),
                   URL |-> fields[7],
                   Method |-> fields[6],
                   StatusCode |-> IF Len(parts) = 2 THEN parts[2] ELSE <<>>,
                   BytesSent |-> ParseInt(fields[5]).v,
                   RawLine |-> line ] ]

\* the lines the loops of the line parsers pass over: blank, or starting with "#"
SkippedLine(line) == TrimSpace(line) = <<>> \/ HasPrefix(line, <<"#">>)

\* an opaque run of 64 KiB of non-blank characters: no bufio.Scanner token holds it
LongRun == "x*65536"

\* scanner.Scan() stops at a line it cannot hold, and scanner.Err() is then non-nil
TooLong(line) == \E i \in 1..Len(line) : line[i] = LongRun

----------------------------------------------------------------------------
(* the DNS parser: dns.go *)

\* time.Parse(time.RFC3339, s) succeeds
IsRFC3339(f) == f = <<"2025-06-10T08:30:00Z">>

\* a simple dialect that takes lines of four fields only
parseSimpleDNS_FourFields(line) ==
    LET fields == Fields(line)
    IN  IF Len(fields) # 4 THEN [err |-> TRUE, entry |-> ZeroEntry]
        ELSE IF ~IsRFC3339(fields[1]) THEN [err |-> TRUE, entry |-> ZeroEntry]
        ELSE [ err |-> FALSE,
               entry |-> [ZeroEntry EXCEPT
                   !.Timestamp = fields[1][1],
                   !.SourceIP = fields[2],
                   !.Domain = ToLower(TrimSuffix(fields[3], Dot)),
                   !.RawLine = line] ]

\* func parseSimpleDNS(line string) (LogEntry, error)
parseSimpleDNS(line) ==
    LET fields == Fields(line)
    IN  IF Len(fields) < 3 THEN [err |-> TRUE, entry |-> ZeroEntry]
        ELSE IF ~IsRFC3339(fields[1]) THEN [err |-> TRUE, entry |-> ZeroEntry]
        ELSE [ err |-> FALSE,
               entry |-> [ZeroEntry EXCEPT
                   !.Timestamp = fields[1][1],
                   !.SourceIP = fields[2],
                   !.Domain = ToLower(TrimSuffix(fields[3], Dot)),
                   !.RawLine = line] ]

\* time.Parse("Jan 2 15:04:05", s) succeeds
IsSyslogTime(part) == part = <<"Jun", " ", "10", " ", "08:30:00">>

\* the timestamp of parseDnsmasq: the text before the marker, host name and
\* process tag dropped, in the current year; zero when it does not parse
DnsmasqTime(line, qIdx) ==
    LET before == TrimSpace(GoSlice(line, 0, qIdx))
        dnsmasqIdx == Index(before, <<"dnsmasq">>)
        cut == TrimSpace(GoSlice(before, 0, dnsmasqIdx))
        tsFields == Fields(cut)
        tsPart == IF dnsmasqIdx > 0
                  THEN IF Len(tsFields) >= 4
                       THEN Join(SubSeq(tsFields, 1, 3), <<" ">>)
                       ELSE cut
                  ELSE before
    IN  IF IsSyslogTime(tsPart) THEN "Jun 10 08:30:00 of this year" ELSE "zero"

\* func parseDnsmasq(line string) (LogEntry, error)
parseDnsmasq(line) ==
    LET qIdx == Index(line, <<"query", "[">>)
        afterQuery == GoFrom(line, qIdx)
        closeBracket == Index(afterQuery, <<"]", " ">>)
        rest == GoFrom(afterQuery, closeBracket + 2)
        parts == Fields(rest)
    IN  IF qIdx = -1 THEN [err |-> TRUE, entry |-> ZeroEntry]
        ELSE IF closeBracket = -1 THEN [err |-> TRUE, entry |-> ZeroEntry]
        ELSE IF Len(parts) < 3 \/ parts[2] # <<"from">> THEN [err |-> TRUE, entry |-> ZeroEntry]
        ELSE [ err |-> FALSE,
               entry |-> [ZeroEntry EXCEPT
                   !.Timestamp = DnsmasqTime(line, qIdx),
                   !.SourceIP = parts[3],
                   !.Domain = ToLower(TrimSuffix(parts[1], Dot)),
                   !.RawLine = line] ]

\* the two dialects, in the order DNSParser.Parse tries them
parseDNSLine(line) ==
    IF ~parseSimpleDNS(line).err THEN parseSimpleDNS(line) ELSE parseDnsmasq(line)

----------------------------------------------------------------------------
(* the CSV parser: csv.go *)

NonEmptyLine(line) == line # <<>>

\* one record of encoding/csv with TrimLeadingSpace, for a line with no quote
CsvRecord(line) ==
    LET cells == Split(line, ",")
    IN  [i \in 1..Len(cells) |-> TrimLeftSpace(cells[i])]

\* csv.Reader.ReadAll with FieldsPerRecord left 0: empty lines are skipped, and a
\* record with another number of fields than the first is an error
CsvReadAll(lines) ==
    LET kept == SelectSeq(lines, NonEmptyLine)
        records == [i \in 1..Len(kept) |-> CsvRecord(kept[i])]
    IN  IF \E i \in 1..Len(records) : Len(records[i]) # Len(records[1])
        THEN [err |-> TRUE, records |-> <<>>]
        ELSE [err |-> FALSE, records |-> records]

\* func mapColumns(header []string) map[string]int: Go indices, the last wins
mapColumns(header) ==
    LET name(i) == ToLower(TrimSpace(header[i]))
    IN  [k \in {name(i) : i \in 1..Len(header)} |->
            (CHOOSE i \in 1..Len(header) :
                name(i) = k /\ \A j \in 1..Len(header) : name(j) = k => j <= i) - 1]

\* func findCol(colMap map[string]int, names ...string) int
RECURSIVE findCol(_, _)
findCol(colMap, names) ==
    IF names = <<>> THEN -1
    ELSE IF Head(names) \in DOMAIN colMap THEN colMap[Head(names)]
    ELSE findCol(colMap, Tail(names))

TimestampNames == << <<"timestamp">>, <<"time">>, <<"date">>, <<"datetime">> >>
SourceNames == << <<"source_ip">>, <<"src_ip">>, <<"src">>, <<"client_ip">>, <<"source">> >>
DestinationNames ==
    << <<"destination">>, <<"dst">>, <<"domain">>, <<"host">>, <<"url">>, <<"dest">>, <<"dst_host">> >>
BytesNames == << <<"bytes">>, <<"bytes_sent">>, <<"size">>, <<"content_length">> >>
ActionNames == << <<"action">>, <<"status">>, <<"status_code">>, <<"result">> >>

\* func parseFlexibleTime(s string) time.Time: the first format that parses
parseFlexibleTime(cell) ==
    LET t == TrimSpace(cell)
    IN  IF IsRFC3339(t) THEN t[1]
        ELSE IF t = <<"2025-06-10">> THEN t[1]
        ELSE "zero"

\* a column that was found and that the row reaches
HasCol(col, row) == col >= 0 /\ col < Len(row)

\* the body of the row loop of CSVParser.Parse, up to the test of entry.Domain
CsvEntry(header, row) ==
    LET colMap == mapColumns(header)
        tsCol == findCol(colMap, TimestampNames)
        srcCol == findCol(colMap, SourceNames)
        dstCol == findCol(colMap, DestinationNames)
        bytesCol == findCol(colMap, BytesNames)
        actionCol == findCol(colMap, ActionNames)
        val == TrimSpace(row[dstCol + 1])
        isURL == HasCol(dstCol, row) /\ Contains(val, <<":", "/", "/">>)
    IN  [ Timestamp |-> IF HasCol(tsCol, row) THEN parseFlexibleTime(row[tsCol + 1]) ELSE "zero",
          SourceIP |-> IF HasCol(srcCol, row) THEN TrimSpace(row[srcCol + 1]) ELSE <<>>,
          Domain |-> IF ~HasCol(dstCol, row) THEN <<>>
                     ELSE IF isURL THEN extractDomain(val)
                     ELSE ToLower(val),
          URL |-> IF isURL THEN val ELSE <<>>,
          Method |-> <<>>,
          StatusCode |-> IF HasCol(actionCol, row) THEN TrimSpace(row[actionCol + 1]) ELSE <<>>,
          BytesSent |-> IF HasCol(bytesCol, row) THEN ParseInt(TrimSpace(row[bytesCol + 1])).v ELSE 0,
          RawLine |-> Join(row, <<",">>) ]

\* how CSVParser.Parse fails before its row loop, "none" when it does not
CsvFileError(lines) ==
    LET read == CsvReadAll(lines)
    IN  IF read.err THEN "parsing CSV"
        ELSE IF Len(read.records) < 2 THEN "CSV has no data rows"
        ELSE IF findCol(mapColumns(read.records[1]), DestinationNames) = -1
             THEN "CSV missing required destination/domain column"
        ELSE "none"

----------------------------------------------------------------------------
(* inputs *)

MaxServices == 2      \* services in one catalog file
MaxDomains == 1       \* domains listed by one service
MaxQueryLabels == 4   \* labels of a queried domain

SeqsUpTo(S, n) == UNION {[1..k -> S] : k \in 0..n}
NonEmptySeqsUpTo(S, n) == UNION {[1..k -> S] : k \in 1..n}

\* domains as a catalog file may list them: one label, two labels (in two
\* letter cases), three labels, each a suffix of the next
CatalogDomains ==
    { <<"a">>, <<"b", ".", "a">>, <<"B", ".", "A">>, <<"A", ".", "b", ".", "a">> }

ServiceIds == { [Name |-> "S1", Category |-> "chat"], [Name |-> "S2", Category |-> "code"] }

Services ==
    { [Name |-> s.Name, Category |-> s.Category, Domains |-> ds] :
        s \in ServiceIds, ds \in NonEmptySeqsUpTo(CatalogDomains, MaxDomains) }

CatalogFiles == SeqsUpTo(Services, MaxServices)

Labels == { <<"a">>, <<"A">>, <<"b">> }

\* the empty string, a trailing root dot, a leading dot
OddQueries == { <<>>, <<"a", ".">>, <<"b", ".", "a", ".">>, <<".", "a">> }

Queries ==
    { Join(ls, Dot) : ls \in NonEmptySeqsUpTo(Labels, MaxQueryLabels) } \cup OddQueries

----------------------------------------------------------------------------
(* the run: load the base catalog, merge the custom one if asked, match *)

\* nothing loaded, nothing matched
NoCatalog ==
    /\ baseFile = <<>>
    /\ customFile = <<>>
    /\ domainMap = EmptyMap

NoMatch ==
    /\ query = <<>>
    /\ result = NotFound

NoAnalysis ==
    /\ entries = <<>>
    /\ idx = 0
    /\ summary = ZeroSummary

NoParse ==
    /\ logFile = [format |-> "none", openable |-> FALSE, lines |-> <<>>]
    /\ scanPos = 0
    /\ parsed = <<>>
    /\ parseErr = "none"

NoRun ==
    /\ files = <<>>
    /\ fileIdx = 0
    /\ allEntries = <<>>
    /\ exitCode = -1
    /\ calls = <<>>
    /\ previous = <<>>

Init ==
    /\ pc = "start"
    /\ NoCatalog
    /\ NoMatch
    /\ NoAnalysis
    /\ NoParse
    /\ NoRun

\* analyzer.New on a readable, well-formed file, one of catalogs
NewFrom(catalogs) ==
    /\ pc = "start"
    /\ \E sf \in catalogs :
        /\ baseFile' = sf
        /\ domainMap' = InsertServices(EmptyMap, sf)
    /\ pc' = "loaded"
    /\ UNCHANGED <<customFile, matchVars, analyzeVars, parseVars, runVars>>

New == NewFrom(CatalogFiles)

\* Analyzer.LoadCustomDomains on a readable, well-formed file
LoadCustomDomains ==
    /\ pc = "loaded"
    /\ \E sf \in CatalogFiles :
        /\ customFile' = sf
        /\ domainMap' = MergeServices(domainMap, sf)
    /\ pc' = "merged"
    /\ UNCHANGED <<baseFile, matchVars, analyzeVars, parseVars, runVars>>

\* one call of Analyzer.matchDomain, on the catalog as loaded or as merged; a
\* run of this specification ends with it
Match ==
    /\ pc \in {"loaded", "merged"}
    /\ pc' = "matched"
    /\ \E d \in Queries :
        /\ query' = d
        /\ result' = matchDomain(domainMap, d)
    /\ UNCHANGED <<catalogVars, analyzeVars, parseVars, runVars>>

Next == New \/ LoadCustomDomains \/ Match

Spec == Init /\ [][Next]_vars

----------------------------------------------------------------------------
(* the run: load the base catalog, analyze a sequence of entries *)

MaxEntries == 3       \* entries handed to Analyze

SourceIPs == {"10.0.0.1", "10.0.0.2"}

\* destinations a parser hands over: listed or not, with a parent listed or not
EntryDomains == { <<"a">>, <<"b", ".", "a">>, <<"a", ".", "b", ".", "a">>, <<"b">> }

\* parsers.LogEntry, the fields Analyze reads
AnalyzeEntries ==
    { [ Timestamp |-> 1718000000, SourceIP |-> ip, Domain |-> d,
        URL |-> <<"h", ":", "/", "/">> \o d \o <<"/">>, Method |-> "GET",
        StatusCode |-> "200", BytesSent |-> 1500, RawLine |-> <<>> ] :
        ip \in SourceIPs, d \in EntryDomains }

Svc(id, d) == [Name |-> id.Name, Category |-> id.Category, Domains |-> <<d>>]
S1 == [Name |-> "S1", Category |-> "chat"]
S2 == [Name |-> "S2", Category |-> "code"]

\* catalogs to analyze against: empty, one service, two services on a domain
\* and its subdomain, on one domain in two spellings, on a single label
AnalyzeCatalogs ==
    { <<>>,
      <<Svc(S1, <<"b", ".", "a">>)>>,
      <<Svc(S1, <<"b", ".", "a">>), Svc(S2, <<"A", ".", "b", ".", "a">>)>>,
      <<Svc(S2, <<"b", ".", "a">>), Svc(S1, <<"B", ".", "A">>)>>,
      <<Svc(S1, <<"a">>), Svc(S2, <<"A", ".", "b", ".", "a">>)>>,
      <<Svc(S2, <<"a">>), Svc(S2, <<"b", ".", "a">>)>> }

NewForAnalyze == NewFrom(AnalyzeCatalogs)

\* entry to Analyze
AnalyzeCall ==
    /\ pc = "loaded"
    /\ \E es \in SeqsUpTo(AnalyzeEntries, MaxEntries) :
        /\ entries' = es
        /\ summary' = NewSummary(es)
    /\ idx' = 1
    /\ pc' = "analyzing"
    /\ UNCHANGED <<catalogVars, matchVars, parseVars, runVars>>

\* an iteration of the loop of Analyze that stores the hit under the logged domain
AnalyzeStep_CachesHit ==
    /\ pc = "analyzing"
    /\ idx <= Len(entries)
    /\ summary' = AnalyzeEntry(domainMap, summary, entries[idx])
    /\ idx' = idx + 1
    /\ LET m == matchDomain(domainMap, entries[idx].Domain)
       IN  domainMap' = IF m.found THEN MapPut(domainMap, entries[idx].Domain, m.svc)
                        ELSE domainMap
    /\ UNCHANGED <<pc, entries, baseFile, customFile, matchVars, parseVars, runVars>>

\* one iteration of for _, entry := range entries
AnalyzeStep ==
    /\ pc = "analyzing"
    /\ idx <= Len(entries)
    /\ summary' = AnalyzeEntry(domainMap, summary, entries[idx])
    /\ idx' = idx + 1
    /\ UNCHANGED <<pc, entries, catalogVars, matchVars, parseVars, runVars>>

\* the loop is over: the totals, and return summary
AnalyzeReturn ==
    /\ pc = "analyzing"
    /\ idx > Len(entries)
    /\ summary' = Totals(summary)
    /\ pc' = "analyzed"
    /\ UNCHANGED <<entries, idx, catalogVars, matchVars, parseVars, runVars>>

AnalyzeNext == NewForAnalyze \/ AnalyzeCall \/ AnalyzeStep \/ AnalyzeReturn

AnalyzeSpec == Init /\ [][AnalyzeNext]_vars

----------------------------------------------------------------------------
(* the run: parse one log file *)

MaxLines == 3         \* lines of one log file

W(fields) == Join(fields, <<" ">>)

IP1 == <<"10.0.0.1">>
UnixTime == <<"1718000000.000">>
RFCTime == <<"2025-06-10T08:30:00Z">>

\* request targets: URLs (upper case, a root dot, a port, a bad port, no host,
\* no scheme) and CONNECT targets (a port, a root dot, no host)
SquidTargets ==
    { <<"h", ":", "/", "/", "A", ".", "B", "/", "a">>,
      <<"h", ":", "/", "/", "a", ".", "b", ".", "/">>,
      <<"h", ":", "/", "/", "b", ".", "a", ":", "443", "/">>,
      <<"h", ":", "/", "/", "a", ".", "b", ":", "a", "/">>,
      <<"h", ":", "/", "/", "/", "a">>,
      <<":", "/", "/", "a", ".", "b">>,
      <<"a", ".", "b", ":", "443">>,
      <<"A", ".", "b", ".", ":", "443">>,
      <<":", "443">> }

SquidLine(ts, target) ==
    W(<< ts, <<"200">>, IP1, <<"TCP_MISS", "/", "200">>, <<"1500">>, <<"GET">>, target,
         <<"-">>, <<"DIRECT", "/", "a", ".", "b">> >>)

\* well-formed lines, a non-numeric timestamp, seven fields, blank lines, a
\* comment, a line too long for the scanner
SquidLines ==
    { SquidLine(UnixTime, t) : t \in SquidTargets } \cup
    { SquidLine(<<"Jun">>, <<"a", ".", "b", ":", "443">>),
      W(<< UnixTime, <<"200">>, IP1, <<"TCP_MISS", "/", "200">>, <<"1500">>, <<"GET">>,
           <<"a", ".", "b", ":", "443">> >>),
      <<>>,
      <<" ">>,
      <<"#">> \o SquidLine(UnixTime, <<"a", ".", "b", ":", "443">>),
      SquidLine(UnixTime, <<"h", ":", "/", "/", "a", ".", "b", "/", LongRun>>) }

DnsmasqLine(tail) ==
    W(<< <<"Jun">>, <<"10">>, <<"08:30:00">>, <<"dnsmasq", "[", "1234", "]", ":">>,
         <<"query", "[", "A", "]">> >>) \o tail

\* simple lines (four, three, five and two fields, upper case, a root dot, two
\* root dots, the root alone, a bad timestamp), dnsmasq lines (upper case and a
\* root dot, the root alone, no "from", no blank after the bracket), a line both
\* dialects accept, blank lines, a comment, a line too long for the scanner
DNSLines ==
    { W(<<RFCTime, IP1, <<"a", ".", "b">>, <<"A">> >>),
      W(<<RFCTime, IP1, <<"A", ".", "B", ".">> >>),
      W(<<RFCTime, IP1, <<"a", ".", "b", ".", ".">>, <<"A">>, <<"A">> >>),
      W(<<RFCTime, IP1, <<".">>, <<"A">> >>),
      W(<<RFCTime, IP1>>),
      W(<< <<"Jun">>, IP1, <<"a", ".", "b">>, <<"A">> >>),
      DnsmasqLine(W(<< <<>>, <<"A", ".", "B", ".">>, <<"from">>, IP1 >>)),
      DnsmasqLine(W(<< <<>>, <<".">>, <<"from">>, IP1 >>)),
      DnsmasqLine(W(<< <<>>, <<"a", ".", "b">>, <<"to">>, IP1 >>)),
      DnsmasqLine(W(<< <<"a", ".", "b">>, <<"from">>, IP1 >>)),
      W(<<RFCTime, IP1, <<"query", "[", "A", "]">>, <<"b", ".", "a">>, <<"from">>, IP1 >>),
      <<>>,
      <<"#">> \o W(<<RFCTime, IP1, <<"a", ".", "b">>, <<"A">> >>),
      W(<<RFCTime, IP1, <<"a", ".", "b", ".", LongRun>>, <<"A">> >>) }

C(cells) == Join(cells, <<",">>)

\* header lines (the destination first, in two spellings, with two
\* destination-like names, with none, the five columns of the README) and data
\* lines (upper case and a root dot, an empty cell, a blank cell, a URL, a URL
\* with no host, one field, five fields), and an empty line
CSVLines ==
    { C(<< <<"domain">>, <<"src_ip">> >>),
      C(<< <<" ", "Domain", " ">>, <<"SRC_IP">> >>),
      C(<< <<"url">>, <<"dst">> >>),
      C(<< <<"name">>, <<"src_ip">> >>),
      C(<< <<"timestamp">>, <<"src_ip">>, <<"domain">>, <<"bytes">>, <<"status">> >>),
      C(<< <<"A", ".", "B", ".">>, IP1 >>),
      C(<< <<>>, IP1 >>),
      C(<< <<" ">>, IP1 >>),
      C(<< <<"h", ":", "/", "/", "A", ".", "b", "/">>, <<"b", ".", "a">> >>),
      C(<< <<"h", ":", "/", "/">>, IP1 >>),
      C(<< <<"a", ".", "b">> >>),
      C(<< <<"2025-06-10">>, IP1, <<"a", ".", "b">>, <<"1500">>, <<"200">> >>),
      <<>> }

Formats == {"squid", "dns", "csv"}

\* os.Open fails: Parse returns nil and the error
OpenFails ==
    /\ pc = "start"
    /\ \E f \in Formats : logFile' = [format |-> f, openable |-> FALSE, lines |-> <<>>]
    /\ parsed' = <<>>
    /\ parseErr' = "opening"
    /\ pc' = "returned"
    /\ UNCHANGED <<scanPos, catalogVars, matchVars, analyzeVars, runVars>>

\* SquidParser.Parse, up to its loop
SquidOpen ==
    /\ pc = "start"
    /\ \E lines \in SeqsUpTo(SquidLines, MaxLines) :
        logFile' = [format |-> "squid", openable |-> TRUE, lines |-> lines]
    /\ scanPos' = 1
    /\ parsed' = <<>>
    /\ pc' = "squid"
    /\ UNCHANGED <<parseErr, catalogVars, matchVars, analyzeVars, runVars>>

\* one iteration of for scanner.Scan() of SquidParser.Parse
SquidScanLine ==
    /\ pc = "squid"
    /\ scanPos <= Len(logFile.lines)
    /\ ~TooLong(logFile.lines[scanPos])
    /\ LET line == logFile.lines[scanPos]
       IN  parsed' = IF SkippedLine(line) \/ parseSquidLine(line).err
                     THEN parsed
                     ELSE Append(parsed, parseSquidLine(line).entry)
    /\ scanPos' = scanPos + 1
    /\ UNCHANGED <<pc, logFile, parseErr, catalogVars, matchVars, analyzeVars, runVars>>

\* scanner.Scan() is false, at the end of the file or at a line too long:
\* scanner.Err() decides what Parse returns
ScanReturn(format) ==
    /\ pc = format
    /\ IF scanPos > Len(logFile.lines) THEN TRUE ELSE TooLong(logFile.lines[scanPos])
    /\ IF scanPos <= Len(logFile.lines)
       THEN parsed' = <<>> /\ parseErr' = "reading"
       ELSE UNCHANGED <<parsed, parseErr>>
    /\ pc' = "returned"
    /\ UNCHANGED <<logFile, scanPos, catalogVars, matchVars, analyzeVars, runVars>>

SquidReturn == ScanReturn("squid")

\* DNSParser.Parse, up to its loop
DNSOpen ==
    /\ pc = "start"
    /\ \E lines \in SeqsUpTo(DNSLines, MaxLines) :
        logFile' = [format |-> "dns", openable |-> TRUE, lines |-> lines]
    /\ scanPos' = 1
    /\ parsed' = <<>>
    /\ pc' = "dns"
    /\ UNCHANGED <<parseErr, catalogVars, matchVars, analyzeVars, runVars>>

\* one iteration of for scanner.Scan() of DNSParser.Parse
DNSScanLine ==
    /\ pc = "dns"
    /\ scanPos <= Len(logFile.lines)
    /\ ~TooLong(logFile.lines[scanPos])
    /\ LET line == logFile.lines[scanPos]
       IN  parsed' = IF SkippedLine(line) \/ parseDNSLine(line).err
                     THEN parsed
                     ELSE Append(parsed, parseDNSLine(line).entry)
    /\ scanPos' = scanPos + 1
    /\ UNCHANGED <<pc, logFile, parseErr, catalogVars, matchVars, analyzeVars, runVars>>

DNSReturn == ScanReturn("dns")

\* CSVParser.Parse, up to its loop: ReadAll, the row count, the columns
CSVOpen ==
    /\ pc = "start"
    /\ \E lines \in SeqsUpTo(CSVLines, MaxLines) :
        /\ logFile' = [format |-> "csv", openable |-> TRUE, lines |-> lines]
        /\ parseErr' = CsvFileError(lines)
        /\ pc' = IF CsvFileError(lines) = "none" THEN "csv" ELSE "returned"
    /\ scanPos' = 2
    /\ parsed' = <<>>
    /\ UNCHANGED <<catalogVars, matchVars, analyzeVars, runVars>>

\* one iteration of for _, row := range records[1:]
CSVRow ==
    /\ pc = "csv"
    /\ LET records == CsvReadAll(logFile.lines).records
       IN  /\ scanPos <= Len(records)
           /\ LET entry == CsvEntry(records[1], records[scanPos])
              IN  parsed' = IF entry.Domain # <<>> THEN Append(parsed, entry) ELSE parsed
    /\ scanPos' = scanPos + 1
    /\ UNCHANGED <<pc, logFile, parseErr, catalogVars, matchVars, analyzeVars, runVars>>

\* return entries, nil
CSVReturn ==
    /\ pc = "csv"
    /\ scanPos > Len(CsvReadAll(logFile.lines).records)
    /\ pc' = "returned"
    /\ UNCHANGED <<parseVars, catalogVars, matchVars, analyzeVars, runVars>>

ParseNext ==
    \/ OpenFails
    \/ SquidOpen \/ SquidScanLine \/ SquidReturn
    \/ DNSOpen \/ DNSScanLine \/ DNSReturn
    \/ CSVOpen \/ CSVRow \/ CSVReturn

ParseSpec == Init /\ [][ParseNext]_vars

----------------------------------------------------------------------------
(* the run: main.go, from the catalogs to the report *)

MaxFiles == 2         \* log files of one run

\* the loop of a line parser over the lines of a file the scanner reads whole
RECURSIVE ScanLines(_, _)
ScanLines(format, lines) ==
    IF lines = <<>> THEN <<>>
    ELSE LET line == Head(lines)
             r == IF format = "squid" THEN parseSquidLine(line) ELSE parseDNSLine(line)
         IN  (IF SkippedLine(line) \/ r.err THEN <<>> ELSE <<r.entry>>)
                 \o ScanLines(format, Tail(lines))

\* the loop of the CSV parser over the data rows
RECURSIVE CsvRows(_, _)
CsvRows(header, rows) ==
    IF rows = <<>> THEN <<>>
    ELSE (IF CsvEntry(header, Head(rows)).Domain # <<>>
          THEN <<CsvEntry(header, Head(rows))>> ELSE <<>>)
             \o CsvRows(header, Tail(rows))

\* p.Parse(f), from the call to the return: the entries and the error
ParseFile(f) ==
    IF ~f.openable THEN [err |-> "opening", entries |-> <<>>]
    ELSE IF f.format = "csv"
    THEN IF CsvFileError(f.lines) # "none"
         THEN [err |-> CsvFileError(f.lines), entries |-> <<>>]
         ELSE LET records == CsvReadAll(f.lines).records
              IN  [err |-> "none", entries |-> CsvRows(records[1], Tail(records))]
    ELSE IF \E i \in 1..Len(f.lines) : TooLong(f.lines[i])
         THEN [err |-> "reading", entries |-> <<>>]
         ELSE [err |-> "none", entries |-> ScanLines(f.format, f.lines)]

File(format, lines) == [format |-> format, openable |-> TRUE, lines |-> lines]

\* log files: Squid with two entries (a listed domain, a subdomain), Squid with a line too long after a good
\* one, Squid with no entry, one that cannot be opened, DNS in both dialects,
\* CSV with one entry, CSV with a row of another width
RunFiles ==
    { File("squid", << SquidLine(UnixTime, <<"h", ":", "/", "/", "A", ".", "B", "/", "a">>),
                       SquidLine(UnixTime, <<"a", ".", "a", ".", "b", ":", "443">>) >>),
      File("squid", << SquidLine(UnixTime, <<"a", ".", "b", ":", "443">>),
                       SquidLine(UnixTime, <<"h", ":", "/", "/", "a", ".", "b", "/", LongRun>>) >>),
      File("squid", << <<" ">> >>),
      [format |-> "dns", openable |-> FALSE, lines |-> <<>>],
      File("dns", << W(<<RFCTime, IP1, <<"b", ".", "a">>, <<"A">> >>),
                     DnsmasqLine(W(<< <<>>, <<"A", ".", "B", ".">>, <<"from">>, IP1 >>)) >>),
      File("csv", << C(<< <<"domain">>, <<"src_ip">> >>),
                     C(<< <<"h", ":", "/", "/", "A", ".", "b", "/">>, <<"b", ".", "a">> >>) >>),
      File("csv", << C(<< <<"domain">>, <<"src_ip">> >>),
                     C(<< <<"A", ".", "B", ".">>, IP1 >>),
                     C(<< <<"a", ".", "b">> >>) >>) }

\* base catalogs of a run: empty, one service, two services
RunCatalogs ==
    { <<>>,
      <<Svc(S1, <<"a", ".", "b">>)>>,
      <<Svc(S1, <<"a", ".", "b">>), Svc(S2, <<"B", ".", "A">>)>> }

\* custom catalogs of a run: one that takes a base domain over, one that adds one
CustomCatalogs ==
    { <<Svc(S2, <<"A", ".", "B">>)>>,
      <<Svc(S2, <<"b", ".", "a">>)>> }

Call(fn, ok) == [fn |-> fn, ok |-> ok]

\* os.Exit(code)
Exit(code) ==
    /\ pc' = "exited"
    /\ exitCode' = code

\* az, err := analyzer.New(svcPath), and the exit when it fails
MainNew ==
    /\ pc = "start"
    /\ \/ /\ \E sf \in RunCatalogs :
              /\ baseFile' = sf
              /\ domainMap' = InsertServices(EmptyMap, sf)
          /\ calls' = Append(calls, Call("New", TRUE))
          /\ pc' = "loaded"
          /\ UNCHANGED exitCode
       \/ /\ calls' = Append(calls, Call("New", FALSE))
          /\ Exit(1)
          /\ UNCHANGED <<baseFile, domainMap>>
    /\ UNCHANGED <<customFile, matchVars, analyzeVars, parseVars,
                   files, fileIdx, allEntries, previous>>

\* if *customDB != "": az.LoadCustomDomains(*customDB), and the exit when it fails
MainLoadCustomDomains ==
    /\ pc = "loaded"
    /\ \/ /\ \E sf \in CustomCatalogs :
              /\ customFile' = sf
              /\ domainMap' = MergeServices(domainMap, sf)
          /\ calls' = Append(calls, Call("LoadCustomDomains", TRUE))
          /\ pc' = "merged"
          /\ UNCHANGED exitCode
       \/ /\ calls' = Append(calls, Call("LoadCustomDomains", FALSE))
          /\ Exit(1)
          /\ UNCHANGED <<customFile, domainMap>>
    /\ UNCHANGED <<baseFile, matchVars, analyzeVars, parseVars,
                   files, fileIdx, allEntries, previous>>

\* the files of -file and -dir are collected; the exit when there is none
MainCollectFiles ==
    /\ pc \in {"loaded", "merged"}
    /\ \E fs \in SeqsUpTo(RunFiles, MaxFiles) :
        /\ files' = fs
        /\ IF fs = <<>>
           THEN Exit(1) /\ UNCHANGED fileIdx
           ELSE pc' = "parsing" /\ fileIdx' = 1 /\ UNCHANGED exitCode
    /\ UNCHANGED <<catalogVars, matchVars, analyzeVars, parseVars,
                   allEntries, calls, previous>>

\* an iteration of the file loop that gives up at the first file that fails
MainParseFile_StopsAtError ==
    /\ pc = "parsing"
    /\ fileIdx <= Len(files)
    /\ LET r == ParseFile(files[fileIdx])
       IN  /\ allEntries' = IF r.err # "none" THEN allEntries ELSE allEntries \o r.entries
           /\ calls' = Append(calls, Call("Parse", r.err = "none"))
           /\ fileIdx' = IF r.err # "none" THEN Len(files) + 1 ELSE fileIdx + 1
    /\ UNCHANGED <<pc, catalogVars, matchVars, analyzeVars, parseVars,
                   files, exitCode, previous>>

\* one iteration of for _, f := range files
MainParseFile ==
    /\ pc = "parsing"
    /\ fileIdx <= Len(files)
    /\ LET r == ParseFile(files[fileIdx])
       IN  /\ allEntries' = IF r.err # "none" THEN allEntries ELSE allEntries \o r.entries
           /\ calls' = Append(calls, Call("Parse", r.err = "none"))
    /\ fileIdx' = fileIdx + 1
    /\ UNCHANGED <<pc, catalogVars, matchVars, analyzeVars, parseVars,
                   files, exitCode, previous>>

\* summary := az.Analyze(allEntries), up to the loop of Analyze
MainAnalyze ==
    /\ pc = "parsing"
    /\ fileIdx > Len(files)
    /\ entries' = allEntries
    /\ summary' = NewSummary(allEntries)
    /\ idx' = 1
    /\ calls' = Append(calls, Call("Analyze", TRUE))
    /\ pc' = "analyzing"
    /\ UNCHANGED <<catalogVars, matchVars, parseVars,
                   files, fileIdx, allEntries, exitCode, previous>>

\* the report is written, or fails to be, and main ends
MainReport ==
    /\ pc = "analyzed"
    /\ \E code \in {0, 1} : Exit(code)
    /\ UNCHANGED <<catalogVars, matchVars, analyzeVars, parseVars,
                   files, fileIdx, allEntries, calls, previous>>

RunNext ==
    \/ MainNew \/ MainLoadCustomDomains \/ MainCollectFiles \/ MainParseFile
    \/ MainAnalyze \/ AnalyzeStep \/ AnalyzeReturn \/ MainReport

RunSpec == Init /\ [][RunNext]_vars

\* a caller that holds the Analyzer calls Analyze(entries) a second time
AnalyzeAgain ==
    /\ pc = "analyzed"
    /\ previous = <<>>
    /\ previous' = <<summary>>
    /\ summary' = NewSummary(entries)
    /\ idx' = 1
    /\ calls' = Append(calls, Call("Analyze", TRUE))
    /\ pc' = "analyzing"
    /\ UNCHANGED <<entries, catalogVars, matchVars, parseVars,
                   files, fileIdx, allEntries, exitCode>>

TwiceNext == RunNext \/ AnalyzeAgain

TwiceSpec == Init /\ [][TwiceNext]_vars

----------------------------------------------------------------------------
(* what the claims about the catalog and the matcher speak of *)

DotPositions(s) == {i \in 1..Len(s) : s[i] = "."}

\* the number of dot-separated labels of s
NumLabels(s) == Cardinality(DotPositions(s)) + 1

\* s with one or more leading labels dropped
ProperSuffixes(s) == {SubSeq(s, k + 1, Len(s)) : k \in DotPositions(s)}

\* the domains a file lists, as spelled
Listed(file) ==
    UNION { {file[i].Domains[j] : j \in 1..Len(file[i].Domains)} : i \in 1..Len(file) }

ListedDomains == Listed(baseFile) \cup Listed(customFile)

\* the services of a file that list key, in any letter case, by position
Listers(file, key) ==
    {i \in 1..Len(file) : \E j \in 1..Len(file[i].Domains) : ToLower(file[i].Domains[j]) = key}

\* the service of a file that lists key last
LastLister(file, key) ==
    file[CHOOSE i \in Listers(file, key) : \A h \in Listers(file, key) : h <= i]

\* the suffixes of the lower-cased input that are catalog keys: the input itself,
\* and every shorter one that keeps two labels or more
KeySuffixes(q) ==
    {s \in {ToLower(q)} \cup {t \in ProperSuffixes(ToLower(q)) : NumLabels(t) >= 2} :
        s \in DOMAIN domainMap}

Longest(S) == CHOOSE s \in S : \A t \in S : Len(t) <= Len(s)

\* no label of s is empty
NoEmptyLabel(s) ==
    /\ s # <<>>
    /\ s[1] # "." /\ s[Len(s)] # "."
    /\ \A i \in 1..(Len(s) - 1) : ~(s[i] = "." /\ s[i + 1] = ".")

\* the input is c with one or more labels prepended, in any letter case
IsSubdomainOf(q, c) == ToLower(c) \in ProperSuffixes(ToLower(q))

----------------------------------------------------------------------------
(* C1 *)

\* C1, as claimed: for every domain c a catalog file lists and every input made
\* of c with one or more non-empty labels prepended, matchDomain returns found
\* and what it returns for c itself.
C1_SubdomainInheritsAlways ==
    (pc = "matched" /\ NoEmptyLabel(query)) =>
        \A c \in ListedDomains :
            c \in ProperSuffixes(query) =>
                result.found /\ result = matchDomain(domainMap, c)

\* C1, amended: for every listed domain c of two labels or more and every input
\* made of c with one or more labels prepended, matchDomain returns found, with
\* the service it returns for the longest suffix of the input (the input itself
\* included) that is a catalog domain; that suffix is c unless a longer one is
\* listed too.
C1_SubdomainInheritsLongestListedSuffix ==
    pc = "matched" =>
        \A c \in ListedDomains :
            (NumLabels(c) >= 2 /\ IsSubdomainOf(query, c)) =>
                /\ result.found
                /\ KeySuffixes(query) # {}
                /\ Len(Longest(KeySuffixes(query))) >= Len(c)
                /\ result = matchDomain(domainMap, Longest(KeySuffixes(query)))

\* C1 witness: two labels are prepended to a listed two-label domain, the
\* suffix in between is listed by another service, and that service is returned.
C1_Witness ==
    /\ pc = "matched"
    /\ \E c \in ListedDomains, m \in ListedDomains :
        /\ NumLabels(c) = 2
        /\ IsSubdomainOf(m, c)
        /\ IsSubdomainOf(query, m)
        /\ domainMap[ToLower(m)].Name # domainMap[ToLower(c)].Name
        /\ result = Found(domainMap[ToLower(m)])

----------------------------------------------------------------------------
(* what the claims about the parsers speak of *)

\* what the line parser of a format makes of one line
LineResult(format, line) ==
    IF format = "squid" THEN parseSquidLine(line) ELSE parseDNSLine(line)

\* the entries of the lines that parse, in file order
RECURSIVE EntriesOfLines(_, _)
EntriesOfLines(format, lines) ==
    IF lines = <<>> THEN <<>>
    ELSE IF SkippedLine(Head(lines)) \/ LineResult(format, Head(lines)).err
         THEN EntriesOfLines(format, Tail(lines))
         ELSE <<LineResult(format, Head(lines)).entry>> \o EntriesOfLines(format, Tail(lines))

\* the rows of a CSV file as written: one per non-empty line, whatever their widths
RowsOf(lines) ==
    LET kept == SelectSeq(lines, NonEmptyLine)
    IN  [i \in 1..Len(kept) |-> CsvRecord(kept[i])]

\* the header names a destination-like column
HasDestinationColumn(header) == findCol(mapColumns(header), DestinationNames) # -1

\* the entries of the data rows that resolve a domain, in file order
RECURSIVE EntriesOfRows(_, _)
EntriesOfRows(header, rows) ==
    IF rows = <<>> THEN <<>>
    ELSE IF CsvEntry(header, Head(rows)).Domain = <<>>
         THEN EntriesOfRows(header, Tail(rows))
         ELSE <<CsvEntry(header, Head(rows))>> \o EntriesOfRows(header, Tail(rows))

\* Parse has returned from a file it could open
Returned(format) ==
    pc = "returned" /\ logFile.format = format /\ logFile.openable

----------------------------------------------------------------------------
(* C2 *)

\* C2, as claimed: the Domain of every entry a parser collects is lower-cased and
\* does not end with a dot.
C2_DomainLowerCasedNoRootDot ==
    \A i \in 1..Len(parsed) :
        /\ parsed[i].Domain = ToLower(parsed[i].Domain)
        /\ ~HasSuffix(parsed[i].Domain, Dot)

----------------------------------------------------------------------------
(* C3 *)

\* C3, as claimed: no entry a parser collects has the empty string as its Domain.
C3_NoEmptyDomain ==
    \A i \in 1..Len(parsed) : parsed[i].Domain # <<>>

----------------------------------------------------------------------------
(* C4 *)

\* C4, as claimed: CSV Parse of a readable file fails only when the file has
\* fewer than two rows or its header has no destination-like column, and
\* otherwise every data row as wide as the header that resolves a domain has
\* its entry returned.
C4_CsvBadRowDoesNotFailFile ==
    Returned("csv") =>
        LET rows == RowsOf(logFile.lines)
        IN  IF Len(rows) < 2 \/ ~HasDestinationColumn(rows[1])
            THEN parseErr # "none"
            ELSE /\ parseErr = "none"
                 /\ \A i \in 2..Len(rows) :
                      (Len(rows[i]) = Len(rows[1]) /\ CsvEntry(rows[1], rows[i]).Domain # <<>>) =>
                          \E k \in 1..Len(parsed) : parsed[k] = CsvEntry(rows[1], rows[i])

----------------------------------------------------------------------------
(* C9 *)

\* C9, as claimed: Squid and DNS Parse of a file that opens return no error,
\* and exactly the entries of the lines that parse, in file order.
C9_LineParsersNeverFail ==
    (Returned("squid") \/ Returned("dns")) =>
        /\ parseErr = "none"
        /\ parsed = EntriesOfLines(logFile.format, logFile.lines)

----------------------------------------------------------------------------
(* C10 *)

\* C10, as claimed: CSV Parse returns an error and no entry when the file has
\* fewer than two rows or its header has no destination-like column; otherwise
\* it returns no error and the entries of the data rows, in order, less those
\* whose destination resolves to nothing.
C10_CsvErrorsAndEmptyCells ==
    Returned("csv") =>
        LET rows == RowsOf(logFile.lines)
        IN  IF Len(rows) < 2 \/ ~HasDestinationColumn(rows[1])
            THEN parseErr # "none" /\ parsed = <<>>
            ELSE /\ parseErr = "none"
                 /\ parsed = EntriesOfRows(rows[1], Tail(rows))

----------------------------------------------------------------------------
(* C5 *)

\* C5: an input equal, letter case aside, to a domain some loaded file lists is
\* found, with the service that lists that domain last in load order (base
\* file, then custom file), whatever suffixes of it are listed too.
C5_ListedDomainReturnsLastOwner ==
    pc = "matched" =>
        \A c \in ListedDomains :
            ToLower(query) = ToLower(c) =>
                result = Found(LastLister(baseFile \o customFile, ToLower(c)))

\* C5 witness: the input differs in letter case from the listed spelling, a
\* shorter suffix of it is listed by another service, and the exact owner is
\* returned.
C5_Witness ==
    /\ pc = "matched"
    /\ \E c \in ListedDomains, p \in ListedDomains :
        /\ ToLower(query) = ToLower(c)
        /\ query # c
        /\ c # ToLower(c)
        /\ NumLabels(p) >= 2
        /\ IsSubdomainOf(c, p)
        /\ domainMap[ToLower(p)].Name # result.svc.Name
        /\ result.found
        /\ result.svc = LastLister(baseFile \o customFile, ToLower(c))

----------------------------------------------------------------------------
(* C6 *)

\* C6: an input that resolves through key k (itself, or its longest listed
\* suffix) returns the service that lists k last in the custom file when the
\* custom file lists k, and the service that lists k last in the base file
\* otherwise.
C6_CustomOwnerWins ==
    (pc = "matched" /\ KeySuffixes(query) # {}) =>
        LET k == Longest(KeySuffixes(query))
        IN  /\ result.found
            /\ Listers(customFile, k) # {} =>
                  /\ result.svc.Name = LastLister(customFile, k).Name
                  /\ result.svc.Category = LastLister(customFile, k).Category
            /\ Listers(customFile, k) = {} =>
                  result.svc = LastLister(baseFile, k)

\* C6 witness: a key listed by both files under different services, reached
\* from a subdomain, returns the custom service.
C6_Witness ==
    /\ pc = "matched"
    /\ KeySuffixes(query) # {}
    /\ LET k == Longest(KeySuffixes(query))
       IN  /\ k # ToLower(query)
           /\ Listers(baseFile, k) # {}
           /\ Listers(customFile, k) # {}
           /\ LastLister(baseFile, k).Name # LastLister(customFile, k).Name
           /\ result.svc.Name = LastLister(customFile, k).Name

----------------------------------------------------------------------------
(* C8 *)

\* C8: an input of two labels or more, of which neither the whole nor any suffix
\* of two labels or more is a catalog key, is not found.
C8_NoMatchOnFinalLabel ==
    (pc = "matched" /\ NumLabels(query) >= 2 /\ KeySuffixes(query) = {}) =>
        ~result.found

\* C8 witness: the final label alone is a catalog key and the input is not found.
C8_Witness ==
    /\ pc = "matched"
    /\ NumLabels(query) >= 2
    /\ \E s \in ProperSuffixes(ToLower(query)) : NumLabels(s) = 1 /\ s \in DOMAIN domainMap
    /\ ~result.found

----------------------------------------------------------------------------
(* C7 *)

\* the positions of the entries whose Domain matchDomain resolves
Matching == {i \in 1..Len(entries) : matchDomain(domainMap, entries[i].Domain).found}

\* C7: Analyze returns TotalLogsScanned = the number of entries, TotalFindings
\* = the number of entries whose Domain matchDomain resolves, UniqueUsers = the
\* number of distinct SourceIP values among those, UniqueServices = the number
\* of distinct matched service names among those.
C7_SummaryCounts ==
    pc = "analyzed" =>
        /\ summary.TotalLogsScanned = Len(entries)
        /\ summary.TotalFindings = Cardinality(Matching)
        /\ summary.UniqueUsers = Cardinality({entries[i].SourceIP : i \in Matching})
        /\ summary.UniqueServices =
              Cardinality({matchDomain(domainMap, entries[i].Domain).svc.Name : i \in Matching})

\* C7 witness: three entries, two findings from one user, so that the four
\* counts differ.
C7_Witness ==
    /\ pc = "analyzed"
    /\ summary.TotalLogsScanned = 3
    /\ summary.TotalFindings = 2
    /\ summary.UniqueUsers = 1
    /\ summary.UniqueServices = 2

----------------------------------------------------------------------------
(* C12 *)

\* every suffix of the lower-cased input that is a catalog key: the input, and
\* the input with leading labels dropped, down to its last label
AllKeySuffixes(q) ==
    {s \in {ToLower(q)} \cup ProperSuffixes(ToLower(q)) : s \in DOMAIN domainMap}

\* C12: when two or more suffixes of the input (the input itself included) are
\* catalog keys, matchDomain returns found with the owner of the longest of
\* them, never the owner of a shorter one.
C12_LongestSuffixOwner ==
    (pc = "matched" /\ Cardinality(AllKeySuffixes(query)) >= 2) =>
        /\ result.found
        /\ result.svc = domainMap[Longest(AllKeySuffixes(query))]

\* C12 witness: two proper suffixes of the input are keys of different
\* services, the input itself is not a key, and the owner of the longer one is
\* returned.
C12_Witness ==
    /\ pc = "matched"
    /\ ToLower(query) \notin DOMAIN domainMap
    /\ \E s \in AllKeySuffixes(query), t \in AllKeySuffixes(query) :
        /\ Len(t) < Len(s)
        /\ NumLabels(t) >= 2
        /\ domainMap[s].Name # domainMap[t].Name
        /\ result.found
        /\ result.svc.Name = domainMap[s].Name

----------------------------------------------------------------------------
(* C13 *)

\* the number of entries the loop of Analyze has been through
Processed ==
    IF pc = "analyzing" THEN idx - 1 ELSE IF pc = "analyzed" THEN Len(entries) ELSE 0

\* the positions, among the first n entries, of those whose Domain or a suffix
\* of it of two labels or more is a catalog key
MatchingUpTo(n) == {i \in 1..n : KeySuffixes(entries[i].Domain) # {}}

\* the k-th position of M, counted from the smallest
Nth(M, k) == CHOOSE i \in M : Cardinality({j \in M : j <= i}) = k

\* the service that owns the longest key suffix of d
Owner(d) == domainMap[Longest(KeySuffixes(d))]

\* C13: throughout Analyze and at its return, Findings holds one Finding per
\* matching entry processed, in input order and with duplicates kept; each
\* carries its entry's Timestamp, SourceIP, Domain, URL, Method, StatusCode and
\* BytesSent and the matched service's Name and Category; ByUser and ByService
\* count the matching entries only, so an entry that does not match adds no
\* Finding and changes no counter.
C13_FindingsAreMatchingEntries ==
    pc \in {"analyzing", "analyzed"} =>
        LET M == MatchingUpTo(Processed)
        IN  /\ Len(summary.Findings) = Cardinality(M)
            /\ \A k \in 1..Len(summary.Findings) :
                 LET e == entries[Nth(M, k)]
                     f == summary.Findings[k]
                 IN  /\ f.Timestamp = e.Timestamp
                     /\ f.SourceIP = e.SourceIP
                     /\ f.Domain = e.Domain
                     /\ f.URL = e.URL
                     /\ f.Method = e.Method
                     /\ f.StatusCode = e.StatusCode
                     /\ f.BytesSent = e.BytesSent
                     /\ f.ServiceName = Owner(e.Domain).Name
                     /\ f.Category = Owner(e.Domain).Category
            /\ DOMAIN summary.ByUser = {entries[i].SourceIP : i \in M}
            /\ \A u \in DOMAIN summary.ByUser :
                 summary.ByUser[u] = Cardinality({i \in M : entries[i].SourceIP = u})
            /\ DOMAIN summary.ByService = {Owner(entries[i].Domain).Name : i \in M}
            /\ \A n \in DOMAIN summary.ByService :
                 summary.ByService[n] =
                     Cardinality({i \in M : Owner(entries[i].Domain).Name = n})

\* C13 witness: of three entries the first and the third are the same matching
\* entry, a subdomain of a listed domain, and the second does not match;
\* Analyze returns the two equal Findings.
C13_Witness ==
    /\ pc = "analyzed"
    /\ Len(entries) = 3
    /\ entries[1] = entries[3]
    /\ KeySuffixes(entries[1].Domain) # {}
    /\ entries[1].Domain \notin DOMAIN domainMap
    /\ KeySuffixes(entries[2].Domain) = {}
    /\ Len(summary.Findings) = 2
    /\ summary.Findings[1] = summary.Findings[2]
    /\ summary.Findings[1].Domain = entries[1].Domain

----------------------------------------------------------------------------
(* C16 *)

\* the sum of the counts of a map[string]int
RECURSIVE SumCounts(_)
SumCounts(m) ==
    IF DOMAIN m = {} THEN 0
    ELSE LET k == CHOOSE x \in DOMAIN m : TRUE
         IN  m[k] + SumCounts([j \in (DOMAIN m) \ {k} |-> m[j]])

\* C16: throughout Analyze and at its return, the ByUser counts and the
\* ByService counts each sum to the length of Findings, every stored count is 1
\* or more, and Findings is no longer than the number of entries processed; in
\* the returned Summary TotalFindings <= TotalLogsScanned, UniqueUsers <=
\* TotalFindings and UniqueServices <= TotalFindings.
C16_CountsBalance ==
    pc \in {"analyzing", "analyzed"} =>
        /\ SumCounts(summary.ByUser) = Len(summary.Findings)
        /\ SumCounts(summary.ByService) = Len(summary.Findings)
        /\ \A u \in DOMAIN summary.ByUser : summary.ByUser[u] >= 1
        /\ \A n \in DOMAIN summary.ByService : summary.ByService[n] >= 1
        /\ Len(summary.Findings) <= Processed
        /\ pc = "analyzed" =>
              /\ summary.TotalFindings <= summary.TotalLogsScanned
              /\ summary.UniqueUsers <= summary.TotalFindings
              /\ summary.UniqueServices <= summary.TotalFindings

\* C16 witness: in the middle of the loop, after two findings of one user
\* against two services, with an entry still to come.
C16_Witness ==
    /\ pc = "analyzing"
    /\ idx = 3
    /\ Len(entries) = 3
    /\ Len(summary.Findings) = 2
    /\ \E u \in DOMAIN summary.ByUser : summary.ByUser[u] = 2
    /\ Cardinality(DOMAIN summary.ByService) = 2

----------------------------------------------------------------------------
(* C15 *)

\* the simple dialect takes the line: an RFC3339 first field, and four fields
\* exactly (as claimed) or three or more (as coded)
SimpleAccepts(line, exactlyFour) ==
    LET fields == Fields(line)
    IN  /\ IF exactlyFour THEN Len(fields) = 4 ELSE Len(fields) >= 3
        /\ IsRFC3339(fields[1])

\* the simple-dialect entry: time, client and queried name from the first three
\* fields
SimpleEntry(line) ==
    LET fields == Fields(line)
    IN  [ZeroEntry EXCEPT !.Timestamp = fields[1][1],
                          !.SourceIP = fields[2],
                          !.Domain = ToLower(TrimSuffix(fields[3], Dot)),
                          !.RawLine = line]

\* the entries of DNS lines: per line that is not blank or a comment the
\* simple-dialect entry if the simple dialect takes it, else the dnsmasq entry
\* if dnsmasq takes it, else nothing
RECURSIVE DNSEntriesOf(_, _)
DNSEntriesOf(lines, exactlyFour) ==
    IF lines = <<>> THEN <<>>
    ELSE LET line == Head(lines)
             own == IF SkippedLine(line) THEN <<>>
                    ELSE IF SimpleAccepts(line, exactlyFour) THEN <<SimpleEntry(line)>>
                    ELSE IF ~parseDnsmasq(line).err THEN <<parseDnsmasq(line).entry>>
                    ELSE <<>>
         IN  own \o DNSEntriesOf(Tail(lines), exactlyFour)

\* the lines the loop of DNSParser.Parse has been through
DNSLinesRead == SubSeq(logFile.lines, 1, scanPos - 1)

\* C15, as claimed: the entries the DNS parser has collected are those of the
\* lines read, where the simple dialect takes exactly the lines of four fields
\* with an RFC3339 first field.
C15_SimpleDialectFourFields ==
    (pc = "dns" /\ logFile.format = "dns") =>
        parsed = DNSEntriesOf(DNSLinesRead, TRUE)

\* C15, amended: the entries the DNS parser has collected are those of the
\* lines read, where the simple dialect takes the lines of three fields or
\* more with an RFC3339 first field and reads the first three; dnsmasq is
\* tried only on the lines the simple dialect refuses, a line both dialects
\* take yields the simple entry, a line neither takes yields none.
C15_SimpleDialectThreeOrMoreFields ==
    (pc = "dns" /\ logFile.format = "dns") =>
        parsed = DNSEntriesOf(DNSLinesRead, FALSE)

\* C15 witness: a file of a three-field simple line, a line both dialects take
\* and a dnsmasq line has been read, and gave three entries, the second one
\* the simple entry.
C15_Witness ==
    /\ pc = "dns"
    /\ scanPos = 4
    /\ Len(parsed) = 3
    /\ Len(Fields(logFile.lines[1])) = 3
    /\ SimpleAccepts(logFile.lines[1], FALSE)
    /\ SimpleAccepts(logFile.lines[2], FALSE)
    /\ ~parseDnsmasq(logFile.lines[2]).err
    /\ parsed[2] = SimpleEntry(logFile.lines[2])
    /\ parsed[2] # parseDnsmasq(logFile.lines[2]).entry
    /\ ~SimpleAccepts(logFile.lines[3], FALSE)
    /\ parsed[3] = parseDnsmasq(logFile.lines[3]).entry

----------------------------------------------------------------------------
(* C11 *)

\* the positions in calls of the calls of fn
CallsOf(fn) == {i \in 1..Len(calls) : calls[i].fn = fn}

\* a catalog load has failed
LoadFailed ==
    \E i \in 1..Len(calls) : calls[i].fn \in {"New", "LoadCustomDomains"} /\ ~calls[i].ok

\* the entries of the files that Parse succeeds on, concatenated in file order
RECURSIVE EntriesOfFiles(_)
EntriesOfFiles(fs) ==
    IF fs = <<>> THEN <<>>
    ELSE (IF ParseFile(Head(fs)).err = "none" THEN ParseFile(Head(fs)).entries ELSE <<>>)
             \o EntriesOfFiles(Tail(fs))

\* C11: once a catalog load has failed the run has exited with status 1 and no
\* Parse or Analyze call was made; in the file loop one Parse call was made per
\* file so far and the entries kept are those of the files that parsed, in
\* file order; once Analyze is called, it was called once, after one Parse call
\* per file of the list (failed ones included), on the entries of the files
\* that parsed, in file order.
C11_FileFailuresDoNotStopTheRun ==
    /\ LoadFailed =>
          /\ pc = "exited" /\ exitCode = 1
          /\ CallsOf("Parse") = {} /\ CallsOf("Analyze") = {}
    /\ pc = "parsing" =>
          /\ Cardinality(CallsOf("Parse")) = fileIdx - 1
          /\ CallsOf("Analyze") = {}
          /\ allEntries = EntriesOfFiles(SubSeq(files, 1, fileIdx - 1))
    /\ CallsOf("Analyze") # {} =>
          /\ Cardinality(CallsOf("Analyze")) = 1
          /\ Cardinality(CallsOf("Parse")) = Len(files)
          /\ \A i \in CallsOf("Parse"), j \in CallsOf("Analyze") : i < j
          /\ \A k \in 1..Len(files) :
                calls[Nth(CallsOf("Parse"), k)].ok = (ParseFile(files[k]).err = "none")
          /\ entries = EntriesOfFiles(files)

\* C11 witness: of two files the first fails in Parse after a good line, the
\* second parses; Analyze has returned, with findings, on the entries of the
\* second file alone.
C11_Witness ==
    /\ pc = "analyzed"
    /\ Len(files) = 2
    /\ ParseFile(files[1]).err = "reading"
    /\ ParseFile(files[2]).err = "none"
    /\ ParseFile(files[2]).entries # <<>>
    /\ entries = ParseFile(files[2]).entries
    /\ summary.TotalLogsScanned = Len(entries)
    /\ summary.TotalFindings >= 1

----------------------------------------------------------------------------
(* C14 *)

\* C14: at every point of a run the domain index is what the files loaded so
\* far make it (each listed domain, lower-cased, owned by its last lister), so
\* nothing but New and LoadCustomDomains writes it; every New and
\* LoadCustomDomains call comes before every Analyze call, the only caller of
\* matchDomain; and a second Analyze call on the same entries returns a
\* Summary equal to the first.
C14_IndexReadOnlyAfterLoad ==
    /\ DOMAIN domainMap = {ToLower(d) : d \in ListedDomains}
    /\ \A k \in DOMAIN domainMap : domainMap[k] = LastLister(baseFile \o customFile, k)
    /\ \A i \in CallsOf("New") \cup CallsOf("LoadCustomDomains"), j \in CallsOf("Analyze") :
          i < j
    /\ (pc = "analyzed" /\ previous # <<>>) => summary = previous[1]

\* C14 witness: after a merge, Analyze has returned twice on entries of which
\* one matches through a parent domain, with findings and equal Summaries.
C14_Witness ==
    /\ pc = "analyzed"
    /\ customFile # <<>>
    /\ previous # <<>>
    /\ Cardinality(CallsOf("Analyze")) = 2
    /\ \E i \in 1..Len(entries) :
          /\ entries[i].Domain \notin DOMAIN domainMap
          /\ KeySuffixes(entries[i].Domain) # {}
    /\ summary.TotalFindings >= 2
    /\ summary = previous[1]

====
